---------------------------- MODULE Spec2Model ----------------------------
(***************************************************************************)
(* Model of ejecutable.py: a folder of images is merged into one PDF, one  *)
(* page per image.                                                         *)
(*                                                                         *)
(*   SpecEnum  the file enumerator: natural_key and iter_images            *)
(*   SpecSize  the pure function image_size_in_points                      *)
(*   Spec      the form (App) and convert_folder_to_pdf, statement by      *)
(*             statement                                                   *)
(*                                                                         *)
(* Text is a sequence of code points (46 ".", 48..57 "0".."9", 65..90      *)
(* "A".."Z", 97..122 "a".."z", 178 SUPERSCRIPT TWO), so that lower(),      *)
(* splitext(), re.split() and the comparison of strings are computed the   *)
(* way Python computes them.                                               *)
(***************************************************************************)
EXTENDS Integers, Sequences, FiniteSets, TLC

VARIABLES
    \* SpecEnum
    listing,      \* what os.listdir(input_dir) yields, in the order it yields it
    files,        \* the outcome of the last iter_images call
    prevFiles,    \* the outcome of the call before it
    \* SpecSize
    img,          \* the Image handed to image_size_in_points
    fallback,     \* its dpi_fallback argument
    size,         \* the outcome of the call
    \* Spec: the form
    input_dir,    \* self.input_dir, the text of the folder field
    output_pdf,   \* self.output_pdf, the text of the destination field
    dpi_fallback, \* self.dpi_fallback, the text of the spinbox
    btn_state,    \* the state of self.btn_run
    status,       \* what self.status shows
    pc,           \* where run is: "idle" when it is not executing
    \* Spec: the locals of convert_folder_to_pdf
    images,       \* the list iter_images returned
    idx,          \* the position of the for loop in it
    c,            \* the canvas
    exc,          \* the exception that is propagating, "none" when none is
    \* Spec: the file system
    folder,       \* the entries of the directory /in
    disk,         \* the destination files
    \* Spec: what the last invocation of run did
    calls,        \* its calls of the widgets, of messagebox and of the core
    outcome,      \* how it ended
    disk0         \* the destination files when it started

enumVars == <<listing, files, prevFiles>>
sizeVars == <<img, fallback, size>>
formVars == <<input_dir, output_pdf, dpi_fallback, btn_state, status, pc>>
convVars == <<images, idx, c, exc>>
fsVars == <<folder, disk>>
runVars == <<calls, outcome, disk0>>
appVars == <<formVars, convVars, fsVars, runVars>>
vars == <<enumVars, sizeVars, appVars>>

(***************************************************************************)
(* Bounds                                                                  *)
(***************************************************************************)
MaxEntries == 3     \* entries of a directory listing (SpecEnum)
MaxFiles == 2       \* entries of the directory /in (Spec)

(***************************************************************************)
(* Strings                                                                 *)
(***************************************************************************)
\* str.lower() of one character (the alphabet has no cased non-ASCII letter)
LowerChar(ch) == IF ch \in 65..90 THEN ch + 32 ELSE ch

lower(s) == [i \in 1..Len(s) |-> LowerChar(s[i])]

\* what the pattern \d matches: a decimal digit (category Nd)
IsDecimal(ch) == ch \in 48..57

\* str.isdigit() of one character: decimal digits and the digits of category
\* No, such as SUPERSCRIPT TWO
IsDigitChar(ch) == ch \in 48..57 \/ ch \in {178, 179, 185}

\* str.isdigit(): a non-empty string of digit characters
isdigit(s) == s # <<>> /\ \A i \in 1..Len(s) : IsDigitChar(s[i])

\* Python's < on str: by code point, a proper prefix first
RECURSIVE StrLess(_, _)
StrLess(a, b) ==
    IF b = <<>> THEN FALSE
    ELSE IF a = <<>> THEN TRUE
    ELSE IF Head(a) # Head(b) THEN Head(a) < Head(b)
    ELSE StrLess(Tail(a), Tail(b))

\* the index of the last ch of s[1..i], 0 when it has none (str.rfind, 1-based)
RECURSIVE rfind(_, _, _)
rfind(s, ch, i) ==
    IF i = 0 THEN 0
    ELSE IF s[i] = ch THEN i
    ELSE rfind(s, ch, i - 1)

rfindDot(s, i) == rfind(s, 46, i)

\* str.strip(): without the white space at both ends
RECURSIVE strip(_)
strip(s) ==
    IF s = <<>> THEN s
    ELSE IF Head(s) = 32 THEN strip(Tail(s))
    ELSE IF s[Len(s)] = 32 THEN strip(SubSeq(s, 1, Len(s) - 1))
    ELSE s

\* str.rstrip("/")
RECURSIVE rstripSep(_)
rstripSep(s) ==
    IF s # <<>> /\ s[Len(s)] = 47 THEN rstripSep(SubSeq(s, 1, Len(s) - 1)) ELSE s

\* os.path.join(a, b) (posixpath)
join(a, b) ==
    IF b # <<>> /\ Head(b) = 47 THEN b
    ELSE IF a = <<>> \/ a[Len(a)] = 47 THEN a \o b
    ELSE a \o <<47>> \o b

\* os.path.basename(p): what follows the last "/"
basename(p) == SubSeq(p, rfind(p, 47, Len(p)) + 1, Len(p))

\* os.path.dirname(p): what precedes the last "/", without trailing "/" unless
\* it is all "/"
dirname(p) ==
    LET head == SubSeq(p, 1, rfind(p, 47, Len(p)))
    IN  IF head # <<>> /\ \E k \in 1..Len(head) : head[k] # 47
        THEN rstripSep(head) ELSE head

\* os.path.splitext(name)[1] of a name without separator: the text from the
\* last dot on, unless only dots precede it
splitext_ext(name) ==
    LET dotIndex == rfindDot(name, Len(name))
    IN  IF dotIndex > 0 /\ \E k \in 1..(dotIndex - 1) : name[k] # 46
        THEN SubSeq(name, dotIndex, Len(name))
        ELSE <<>>

\* ".jpg", ".jpeg", ".png", ".webp", ".tif", ".tiff", ".bmp"
SUPPORTED_EXT ==
    { <<46, 106, 112, 103>>, <<46, 106, 112, 101, 103>>, <<46, 112, 110, 103>>,
      <<46, 119, 101, 98, 112>>, <<46, 116, 105, 102>>,
      <<46, 116, 105, 102, 102>>, <<46, 98, 109, 112>> }

(***************************************************************************)
(* natural_key                                                             *)
(***************************************************************************)
RECURSIVE DigitPrefixLen(_)
DigitPrefixLen(s) ==
    IF s = <<>> \/ ~IsDecimal(Head(s)) THEN 0 ELSE 1 + DigitPrefixLen(Tail(s))

RECURSIVE NonDigitPrefixLen(_)
NonDigitPrefixLen(s) ==
    IF s = <<>> \/ IsDecimal(Head(s)) THEN 0 ELSE 1 + NonDigitPrefixLen(Tail(s))

\* re.split(r"(\d+)", s): the runs of s, a non-digit run (maybe empty) first
\* and last, the digit runs between them
RECURSIVE re_split(_)
re_split(s) ==
    LET n    == NonDigitPrefixLen(s)
        rest == SubSeq(s, n + 1, Len(s))
        d    == DigitPrefixLen(rest)
    IN  IF rest = <<>> THEN << SubSeq(s, 1, n) >>
        ELSE << SubSeq(s, 1, n), SubSeq(rest, 1, d) >>
             \o re_split(SubSeq(rest, d + 1, Len(rest)))

\* int(s) of a string of decimal digits
RECURSIVE int(_)
int(s) == IF s = <<>> THEN 0 ELSE 10 * int(SubSeq(s, 1, Len(s) - 1)) + (s[Len(s)] - 48)

\* one element of the key: int(s) if s.isdigit() else s
IntTok(n) == [isint |-> TRUE, n |-> n, s |-> <<>>]
StrTok(s) == [isint |-> FALSE, n |-> 0, s |-> s]

\* int() raises ValueError on a digit of category No
TokRaises(s) == isdigit(s) /\ \E i \in 1..Len(s) : ~IsDecimal(s[i])

\* a faulty variant: the runs are kept as strings
natural_key_no_int(path) ==
    LET runs == re_split(lower(basename(path)))
    IN  [err |-> "none", toks |-> [i \in 1..Len(runs) |-> StrTok(runs[i])]]

natural_key(path) ==
    LET runs == re_split(lower(basename(path)))
    IN  IF \E i \in 1..Len(runs) : TokRaises(runs[i])
        THEN [err |-> "ValueError", toks |-> <<>>]
        ELSE [err |-> "none",
              toks |-> [i \in 1..Len(runs) |->
                          IF isdigit(runs[i]) THEN IntTok(int(runs[i]))
                          ELSE StrTok(runs[i])]]

\* Python's < on two lists: the first index where the elements differ (==)
\* decides; an int against a str raises TypeError; a proper prefix is less
RECURSIVE ListLess(_, _)
ListLess(a, b) ==
    IF b = <<>> THEN "no"
    ELSE IF a = <<>> THEN "yes"
    ELSE IF Head(a) = Head(b) THEN ListLess(Tail(a), Tail(b))
    ELSE IF Head(a).isint # Head(b).isint THEN "TypeError"
    ELSE IF Head(a).isint THEN (IF Head(a).n < Head(b).n THEN "yes" ELSE "no")
    ELSE IF StrLess(Head(a).s, Head(b).s) THEN "yes" ELSE "no"

(***************************************************************************)
(* iter_images                                                             *)
(***************************************************************************)
\* list.sort(key=...): stable; x goes before the first element it is less than
RECURSIVE InsertByKey(_, _)
InsertByKey(sorted, x) ==
    IF sorted = <<>> THEN <<x>>
    ELSE IF ListLess(natural_key(x).toks, natural_key(Head(sorted)).toks) = "yes"
         THEN <<x>> \o sorted
         ELSE <<Head(sorted)>> \o InsertByKey(Tail(sorted), x)

RECURSIVE sort(_)
sort(fs) ==
    IF fs = <<>> THEN <<>>
    ELSE InsertByKey(sort(SubSeq(fs, 1, Len(fs) - 1)), fs[Len(fs)])

\* the exception list.sort raises, "none" when it raises none
SortError(fs) ==
    IF \E i \in 1..Len(fs) : natural_key(fs[i]).err # "none" THEN "ValueError"
    ELSE IF \E i, j \in 1..Len(fs) :
              ListLess(natural_key(fs[i]).toks, natural_key(fs[j]).toks) = "TypeError"
         THEN "TypeError"
         ELSE "none"

\* the loop of iter_images: every entry of the listing whose extension is supported
RECURSIVE Filter(_, _)
Filter(dir, ls) ==
    IF ls = <<>> THEN <<>>
    ELSE (IF lower(splitext_ext(Head(ls).name)) \in SUPPORTED_EXT
          THEN << join(dir, Head(ls).name) >> ELSE <<>>)
         \o Filter(dir, Tail(ls))

iter_images(dir, ls) ==
    LET fs == Filter(dir, ls)
    IN  IF SortError(fs) # "none"
        THEN [err |-> SortError(fs), files |-> <<>>]
        ELSE [err |-> "none", files |-> sort(fs)]


(***************************************************************************)
(* image_size_in_points                                                    *)
(***************************************************************************)
RECURSIVE gcd(_, _)
gcd(a, b) == IF b = 0 THEN a ELSE gcd(b, a % b)

Abs(x) == IF x < 0 THEN -x ELSE x

\* the number n/d (d # 0) in lowest terms with a positive denominator: the value
\* of a length in points, which Python holds as a float
Rat(n, d) ==
    LET g == gcd(Abs(n), Abs(d))
        s == IF d < 0 THEN -1 ELSE 1
    IN  [num |-> (s * n) \div g, den |-> (s * d) \div g]

\* (px / dpi) * 72.0
Points(px, dpi) == Rat(px * 72, dpi)

\* img.info.get("dpi", None): <<>> is None, <<x, y>> the tuple (x, y)
info_get_dpi(im) == im.dpi

image_size_in_points(im, fb) ==
    LET w_px  == im.size[1]
        h_px  == im.size[2]
        dpi   == info_get_dpi(im)
        \* a tuple of two or more values, both truthy: any number but 0
        meta  == Len(dpi) >= 2 /\ dpi[1] # 0 /\ dpi[2] # 0
        x_dpi == IF meta THEN dpi[1] ELSE fb
        y_dpi == IF meta THEN dpi[2] ELSE fb
    IN  IF x_dpi = 0 \/ y_dpi = 0
        THEN [err |-> "ZeroDivisionError", w_pt |-> Rat(0, 1), h_pt |-> Rat(0, 1)]
        ELSE [err |-> "none", w_pt |-> Points(w_px, x_dpi), h_pt |-> Points(h_px, y_dpi)]

(***************************************************************************)
(* Pillow and ReportLab, as convert_folder_to_pdf uses them                *)
(***************************************************************************)
NoIm == [size |-> <<0, 0>>, mode |-> "", dpi |-> <<>>, orientation |-> 1]

\* Image.open(path) on a directory entry: a directory and a file that is no
\* image raise, an image file gives the decoded image with its metadata
Image_open(e) ==
    IF e.isdir THEN [err |-> "IsADirectoryError", im |-> NoIm]
    ELSE IF ~e.ok THEN [err |-> "UnidentifiedImageError", im |-> NoIm]
    ELSE [err |-> "none",
          im |-> [size |-> e.size, mode |-> e.mode, dpi |-> e.dpi,
                  orientation |-> e.orientation]]

\* ImageOps.exif_transpose: the orientations 5..8 turn the image by a quarter,
\* which swaps its width and height; info, the DPI with it, is copied as it is
exif_transpose(im) ==
    [im EXCEPT !.size = IF im.orientation \in 5..8 THEN <<im.size[2], im.size[1]>>
                        ELSE im.size,
               !.orientation = 1]

\* Image.new("RGB", size, white) with img pasted on it: a new image, whose info
\* is empty
white_background(im) == [size |-> im.size, mode |-> "RGB", dpi |-> <<>>, orientation |-> 1]

\* img.convert("RGB"): the new image keeps a copy of info
convert_RGB(im) == [im EXCEPT !.mode = "RGB"]

\* lines 58..63: what img is when image_size_in_points is called
normalize(im) ==
    IF im.mode \in {"RGBA", "LA"} THEN white_background(im)
    ELSE IF im.mode # "RGB" THEN convert_RGB(im)
    ELSE im

\* c = None
None == [made |-> FALSE, filename |-> <<>>, pagesize |-> <<Rat(0, 1), Rat(0, 1)>>,
         via |-> "", pages |-> <<>>, saves |-> 0]

\* canvas.Canvas(output_pdf, pagesize=...): nothing is written before save()
Canvas(filename, pagesize) ==
    [made |-> TRUE, filename |-> filename, pagesize |-> pagesize, via |-> "Canvas",
     pages |-> <<>>, saves |-> 0]

\* a faulty variant: the size of the first page is kept for the later ones
setPageSize_ignored(cv, pagesize) == cv

\* c.setPageSize(...): the size of the page being drawn and of those after it
setPageSize(cv, pagesize) == [cv EXCEPT !.pagesize = pagesize, !.via = "setPageSize"]

\* c.drawImage(ImageReader(img), 0, 0, width, height) and c.showPage(): the page
\* is closed with the image of path on it, at the size the canvas has now
drawImage_showPage(cv, path, width, height) ==
    [cv EXCEPT !.pages = Append(@, [src |-> path, size |-> cv.pagesize,
                                    via |-> cv.via, drawn |-> <<width, height>>])]

(***************************************************************************)
(* The form as App.__init__ and _build_ui leave it                         *)
(***************************************************************************)
\* the texts "300", "150", "0", "abc" of the spinbox
DpiTexts == { <<51, 48, 48>>, <<49, 53, 48>>, <<48>>, <<97, 98, 99>> }

\* IntVar.get() and int(): the number the text spells, TclError when it spells none
IntVar_get(text) ==
    IF text # <<>> /\ \A i \in 1..Len(text) : IsDecimal(text[i])
    THEN [err |-> "none", val |-> int(text)]
    ELSE [err |-> "TclError", val |-> 0]

Status(kind, path, e) == [kind |-> kind, path |-> path, exc |-> e]

NoOutcome == [kind |-> "none", why |-> ""]

FormConstructed ==
    /\ input_dir = <<>>
    /\ output_pdf = <<>>
    /\ dpi_fallback = <<51, 48, 48>>
    /\ btn_state = "normal"
    /\ status = Status("ready", <<>>, "")
    /\ pc = "idle"

NotConverting ==
    /\ images = <<>>
    /\ idx = 0
    /\ c = None
    /\ exc = "none"

\* the destination paths "o.pdf" and "/in/salida.pdf"
DestPaths ==
    { <<111, 46, 112, 100, 102>>,
      <<47, 105, 110, 47, 115, 97, 108, 105, 100, 97, 46, 112, 100, 102>> }

Absent == [exists |-> FALSE, complete |-> FALSE, pages |-> <<>>]

\* the variables of Spec, where SpecEnum and SpecSize leave them
AppUnused ==
    /\ FormConstructed
    /\ NotConverting
    /\ folder = {}
    /\ disk = [d \in DestPaths |-> Absent]
    /\ calls = <<>>
    /\ outcome = NoOutcome
    /\ disk0 = [d \in DestPaths |-> Absent]

\* the variables of SpecEnum and SpecSize, where the other specifications
\* leave them
NotCalled == [err |-> "not called", files |-> <<>>]

NoImage == [size |-> <<0, 0>>, dpi |-> <<>>]

SizeNotCalled == [err |-> "not called", w_pt |-> Rat(0, 1), h_pt |-> Rat(0, 1)]

EnumUnused == listing = <<>> /\ files = NotCalled /\ prevFiles = NotCalled

SizeUnused == img = NoImage /\ fallback = 0 /\ size = SizeNotCalled

(***************************************************************************)
(* SpecEnum: iter_images on the listings of a directory                    *)
(***************************************************************************)
\* the directory entries the listings are drawn from
EnumPool ==
    { [name |-> <<105, 109, 103, 49, 46, 112, 110, 103>>, isdir |-> FALSE],      \* img1.png
      [name |-> <<105, 109, 103, 50, 46, 112, 110, 103>>, isdir |-> FALSE],      \* img2.png
      [name |-> <<105, 109, 103, 49, 48, 46, 112, 110, 103>>, isdir |-> FALSE],  \* img10.png
      [name |-> <<105, 109, 103, 48, 49, 46, 112, 110, 103>>, isdir |-> FALSE],  \* img01.png
      [name |-> <<73, 77, 71, 49, 46, 80, 78, 71>>, isdir |-> FALSE],            \* IMG1.PNG
      [name |-> <<97, 46, 112, 110, 103>>, isdir |-> FALSE],                     \* a.png
      [name |-> <<98, 46, 116, 120, 116>>, isdir |-> FALSE],                     \* b.txt
      [name |-> <<99, 46, 74, 80, 69, 71>>, isdir |-> FALSE],                    \* c.JPEG
      [name |-> <<46, 112, 110, 103>>, isdir |-> FALSE],                         \* .png
      [name |-> <<178, 49, 46, 106, 112, 103>>, isdir |-> FALSE],                \* (2)1.jpg, (2) = U+00B2
      [name |-> <<115, 117, 98, 46, 112, 110, 103>>, isdir |-> TRUE],            \* sub.png/
      [name |-> <<100, 111, 99, 115>>, isdir |-> TRUE] }                         \* docs/

\* the sequences of distinct elements of S, of length 0..n
RECURSIVE DistinctSeqs(_, _)
DistinctSeqs(S, n) ==
    IF n = 0 THEN { <<>> }
    ELSE LET shorter == DistinctSeqs(S, n - 1)
         IN  shorter \cup
             { Append(q, x) : q \in { r \in shorter : Len(r) = n - 1 },
                              x \in S } 

Range(q) == { q[i] : i \in 1..Len(q) }

IsInjective(q) == \A i, j \in 1..Len(q) : q[i] = q[j] => i = j

Listings == { q \in DistinctSeqs(EnumPool, MaxEntries) : IsInjective(q) }

InitEnum ==
    /\ listing \in Listings
    /\ files = NotCalled
    /\ prevFiles = NotCalled
    /\ SizeUnused
    /\ AppUnused

\* files = iter_images("d"), on what os.listdir yields now
Scan ==
    /\ files' = iter_images(<<100>>, listing)     \* the directory "d"
    /\ prevFiles' = files
    /\ UNCHANGED <<listing, sizeVars, appVars>>

\* os.listdir yields the entries "in arbitrary order": the same entries in
\* another order at the next call
Relist ==
    /\ \E q \in Listings :
          /\ Range(q) = Range(listing)
          /\ q # listing
          /\ listing' = q
    /\ UNCHANGED <<files, prevFiles, sizeVars, appVars>>

NextEnum == Scan \/ Relist

SpecEnum == InitEnum /\ [][NextEnum]_vars

(***************************************************************************)
(* SpecSize: image_size_in_points on bounded images                        *)
(***************************************************************************)
PixelSizes == { <<300, 600>>, <<72, 144>>, <<100, 100>> }
DpiValues == { -72, 0, 72, 100, 150 }
DpiInfos == { <<>> } \cup { <<x, y>> : x \in DpiValues, y \in DpiValues }
Fallbacks == { 0, 72, 150, 300, 600 }

InitSize ==
    /\ img \in { [size |-> s, dpi |-> d] : s \in PixelSizes, d \in DpiInfos }
    /\ fallback \in Fallbacks
    /\ size = SizeNotCalled
    /\ EnumUnused
    /\ AppUnused

CallSize ==
    /\ size = SizeNotCalled
    /\ size' = image_size_in_points(img, fallback)
    /\ UNCHANGED <<img, fallback, enumVars, appVars>>

NextSize == CallSize

SpecSize == InitSize /\ [][NextSize]_vars


(***************************************************************************)
(* Properties of the enumerator (SpecEnum)                                 *)
(***************************************************************************)
Returned(r) == r.err = "none"

NamesOf(r) == { basename(r.files[i]) : i \in 1..Len(r.files) }

\* the entries of the listing that are image files: not a subdirectory, and
\* with a supported extension, whatever its case
ImageFileNames(ls) ==
    { e.name : e \in { x \in Range(ls) :
                          ~x.isdir /\ lower(splitext_ext(x.name)) \in SUPPORTED_EXT } }

\* C2: for every directory listing, iter_images returns exactly the entries
\* whose extension, compared case-insensitively, is a supported one; every
\* other entry and every subdirectory, whatever its name, is excluded, and no
\* matching file is dropped or duplicated.
C2_ExactlyImageFiles ==
    Returned(files) =>
        /\ NamesOf(files) = ImageFileNames(listing)
        /\ Len(files.files) = Cardinality(ImageFileNames(listing))

IsNumberRun(r) == r # <<>> /\ \A i \in 1..Len(r) : IsDecimal(r[i])

\* the runs a before the runs b, or equal to them: at the first place where
\* they differ a digit run is compared as a number, another run as text
RECURSIVE RunsLeq(_, _)
RunsLeq(a, b) ==
    IF a = <<>> THEN TRUE
    ELSE IF b = <<>> THEN FALSE
    ELSE IF IsNumberRun(Head(a)) /\ IsNumberRun(Head(b))
         THEN IF int(Head(a)) # int(Head(b)) THEN int(Head(a)) < int(Head(b))
              ELSE RunsLeq(Tail(a), Tail(b))
    ELSE IF IsNumberRun(Head(a)) \/ IsNumberRun(Head(b)) THEN FALSE
    ELSE IF Head(a) # Head(b) THEN StrLess(Head(a), Head(b))
    ELSE RunsLeq(Tail(a), Tail(b))

NameRuns(name) == re_split(lower(name))

\* the first place where the runs of two names differ is a digit run
RECURSIVE DifferFirstInNumber(_, _)
DifferFirstInNumber(a, b) ==
    IF a = <<>> \/ b = <<>> THEN FALSE
    ELSE IF Head(a) = Head(b) THEN DifferFirstInNumber(Tail(a), Tail(b))
    ELSE IsNumberRun(Head(a)) /\ IsNumberRun(Head(b)) /\ int(Head(a)) # int(Head(b))

\* C3: the sequence iter_images returns is in natural order of the lowercased
\* base names: of two returned files the earlier one has, at the first run
\* where they differ, the smaller number (a digit run) or the smaller text
\* (another run); img1, img2, img10.
C3_NaturalOrder ==
    Returned(files) =>
        \A i, j \in 1..Len(files.files) :
            i < j => RunsLeq(NameRuns(basename(files.files[i])), NameRuns(basename(files.files[j])))

PositionIn(q, name) == CHOOSE k \in 1..Len(q) : q[k].name = name

\* two returned files that differ first in a digit run and that the listing
\* yielded in the other order (the larger number first, as text would sort them)
C3_Witness ==
    /\ Returned(files)
    /\ \E i, j \in 1..Len(files.files) :
          /\ i < j
          /\ DifferFirstInNumber(NameRuns(basename(files.files[i])), NameRuns(basename(files.files[j])))
          /\ StrLess(lower(basename(files.files[j])), lower(basename(files.files[i])))
          /\ PositionIn(listing, basename(files.files[j])) < PositionIn(listing, basename(files.files[i]))

\* C7: the key is a total order on the names of a directory (two distinct
\* entries have different keys), so that iter_images returns the same sequence
\* for every order in which the listing yields the same entries: two calls on
\* the same entries return the same sequence.
C7_OrderIndependent ==
    (Returned(files) /\ Returned(prevFiles)) => files.files = prevFiles.files

(***************************************************************************)
(* Properties of image_size_in_points (SpecSize)                           *)
(***************************************************************************)
\* C4: image_size_in_points returns (w_px / x_dpi * 72, h_px / y_dpi * 72),
\* where (x_dpi, y_dpi) is the DPI metadata when both axes report a positive
\* value and the fallback DPI, for both axes, in every other case.
C4_PositiveMetadataElseFallback ==
    size.err = "none" =>
        LET positive == Len(img.dpi) = 2 /\ img.dpi[1] > 0 /\ img.dpi[2] > 0
            x_dpi    == IF positive THEN img.dpi[1] ELSE fallback
            y_dpi    == IF positive THEN img.dpi[2] ELSE fallback
        IN  /\ x_dpi # 0 /\ y_dpi # 0
            /\ size.w_pt = Points(img.size[1], x_dpi)
            /\ size.h_pt = Points(img.size[2], y_dpi)


(***************************************************************************)
(* Spec: the form and convert_folder_to_pdf                                *)
(***************************************************************************)
InDir == <<47, 105, 110>>                    \* "/in"
Cwd == <<46>>                                \* "."
salida_pdf == <<115, 97, 108, 105, 100, 97, 46, 112, 100, 102>>   \* "salida.pdf"

\* the directories that exist: "/", "." and "/in"
Dirs == { <<47>>, Cwd, InDir }

\* os.path.isdir
isdir(path) == path \in Dirs

\* what the user types in the folder field: "", " /in ", "/no"
InputTexts == { <<>>, <<32, 47, 105, 110, 32>>, <<47, 110, 111>> }

\* what the user types in the destination field: "", "o.pdf", "/no/o.pdf"
OutputTexts == { <<>>, <<111, 46, 112, 100, 102>>, <<47, 110, 111, 47, 111, 46, 112, 100, 102>> }

\* what askdirectory returns: "" when the dialog is cancelled
PickedFolders == { <<>>, InDir }

\* what asksaveasfilename returns: "" when the dialog is cancelled, "/in/salida.pdf"
PickedOutputs == { <<>>, join(InDir, salida_pdf) }

\* the entries the directory /in is made of
AppPool ==
    { \* img1.png: RGB, 100 x 100 px at (100, 100) DPI
      [name |-> <<105, 109, 103, 49, 46, 112, 110, 103>>, isdir |-> FALSE, ok |-> TRUE,
       size |-> <<100, 100>>, mode |-> "RGB", dpi |-> <<100, 100>>, orientation |-> 1],
      \* img2.png: RGBA, 100 x 100 px at (100, 100) DPI
      [name |-> <<105, 109, 103, 50, 46, 112, 110, 103>>, isdir |-> FALSE, ok |-> TRUE,
       size |-> <<100, 100>>, mode |-> "RGBA", dpi |-> <<100, 100>>, orientation |-> 1],
      \* img10.png: palette, 300 x 600 px, no DPI
      [name |-> <<105, 109, 103, 49, 48, 46, 112, 110, 103>>, isdir |-> FALSE, ok |-> TRUE,
       size |-> <<300, 600>>, mode |-> "P", dpi |-> <<>>, orientation |-> 1],
      \* c.JPEG: RGB, 72 x 144 px at (72, 72) DPI, EXIF orientation 6
      [name |-> <<99, 46, 74, 80, 69, 71>>, isdir |-> FALSE, ok |-> TRUE,
       size |-> <<72, 144>>, mode |-> "RGB", dpi |-> <<72, 72>>, orientation |-> 6],
      \* bad.bmp: a file that is no image
      [name |-> <<98, 97, 100, 46, 98, 109, 112>>, isdir |-> FALSE, ok |-> FALSE,
       size |-> <<0, 0>>, mode |-> "", dpi |-> <<>>, orientation |-> 1],
      \* sub.png: a subdirectory
      [name |-> <<115, 117, 98, 46, 112, 110, 103>>, isdir |-> TRUE, ok |-> FALSE,
       size |-> <<0, 0>>, mode |-> "", dpi |-> <<>>, orientation |-> 1] }

\* a PDF that a run wrote, as an entry of its directory
PdfEntry(dest) ==
    [name |-> basename(dest), isdir |-> FALSE, ok |-> FALSE,
     size |-> <<0, 0>>, mode |-> "", dpi |-> <<>>, orientation |-> 1]

\* the entries of a directory: those of /in, and the PDFs written there
DirEntries(path) ==
    (IF path = InDir THEN folder ELSE {})
    \cup { PdfEntry(d) : d \in { x \in DestPaths : disk[x].exists /\ dirname(x) = path } }

\* os.listdir(path): the entries, in arbitrary order
listdir(path) ==
    LET E == DirEntries(path)
    IN  { q \in DistinctSeqs(E, Cardinality(E)) : Len(q) = Cardinality(E) /\ IsInjective(q) }

\* the entry a path of iter_images names
EntryAt(path) == CHOOSE e \in DirEntries(dirname(path)) : e.name = basename(path)

Init ==
    /\ FormConstructed
    /\ NotConverting
    /\ folder \in { F \in SUBSET AppPool : Cardinality(F) <= MaxFiles }
    /\ disk = [d \in DestPaths |-> Absent]
    /\ calls = <<>>
    /\ outcome = NoOutcome
    /\ disk0 = disk
    /\ EnumUnused
    /\ SizeUnused

\* a user event that is not a click on the trigger: what the last run did is
\* no longer looked at
Forget ==
    /\ calls' = <<>>
    /\ outcome' = NoOutcome
    /\ disk0' = disk

\* the user edits the folder field
TypeInput ==
    /\ pc = "idle"
    /\ \E v \in InputTexts : input_dir' = v
    /\ Forget
    /\ UNCHANGED <<output_pdf, dpi_fallback, btn_state, status, pc, convVars, fsVars>>
    /\ UNCHANGED <<enumVars, sizeVars>>

\* the user edits the destination field
TypeOutput ==
    /\ pc = "idle"
    /\ \E v \in OutputTexts : output_pdf' = v
    /\ Forget
    /\ UNCHANGED <<input_dir, dpi_fallback, btn_state, status, pc, convVars, fsVars>>
    /\ UNCHANGED <<enumVars, sizeVars>>

\* the user edits the spinbox, which takes any text
TypeDpi ==
    /\ pc = "idle"
    /\ \E v \in DpiTexts : dpi_fallback' = v
    /\ Forget
    /\ UNCHANGED <<input_dir, output_pdf, btn_state, status, pc, convVars, fsVars>>
    /\ UNCHANGED <<enumVars, sizeVars>>

pick_folder ==
    /\ pc = "idle"
    /\ \E picked \in PickedFolders :
          IF picked # <<>>
          THEN /\ input_dir' = picked
               /\ status' = Status("folder", picked, "")
               /\ output_pdf' = IF output_pdf = <<>> THEN join(picked, salida_pdf)
                                ELSE output_pdf
          ELSE UNCHANGED <<input_dir, status, output_pdf>>
    /\ Forget
    /\ UNCHANGED <<dpi_fallback, btn_state, pc, convVars, fsVars>>
    /\ UNCHANGED <<enumVars, sizeVars>>

pick_output ==
    /\ pc = "idle"
    /\ \E path \in PickedOutputs :
          IF path # <<>>
          THEN /\ output_pdf' = path
               /\ status' = Status("output", path, "")
          ELSE UNCHANGED <<output_pdf, status>>
    /\ Forget
    /\ UNCHANGED <<input_dir, dpi_fallback, btn_state, pc, convVars, fsVars>>
    /\ UNCHANGED <<enumVars, sizeVars>>

\* a faulty variant: the destination folder is not looked at
Validate_no_out_dir(in_dir, out_pdf) ==
    IF in_dir = <<>> \/ ~isdir(in_dir) THEN "Falta carpeta"
    ELSE IF out_pdf = <<>> THEN "Falta salida"
    ELSE "ok"

\* lines 294..306 of run: the title of the error it shows, "ok" when it shows none
Validate(in_dir, out_pdf) ==
    LET out_dir == IF dirname(out_pdf) # <<>> THEN dirname(out_pdf) ELSE Cwd
    IN  IF in_dir = <<>> \/ ~isdir(in_dir) THEN "Falta carpeta"
        ELSE IF out_pdf = <<>> THEN "Falta salida"
        ELSE IF ~isdir(out_dir) THEN "Ruta invalida"
        ELSE "ok"

\* run, lines 291..306, when a check fails: showerror and return
run_reject ==
    /\ pc = "idle"
    /\ Validate(strip(input_dir), strip(output_pdf)) # "ok"
    /\ calls' = << "showerror" >>
    /\ outcome' = [kind |-> "rejected", why |-> Validate(strip(input_dir), strip(output_pdf))]
    /\ disk0' = disk
    /\ UNCHANGED <<formVars, convVars, fsVars>>
    /\ UNCHANGED <<enumVars, sizeVars>>

\* run, lines 291..311, when every check passes: the try block is entered
run_try ==
    /\ pc = "idle"
    /\ Validate(strip(input_dir), strip(output_pdf)) = "ok"
    /\ btn_state' = "disabled"
    /\ status' = Status("creating", <<>>, "")
    /\ calls' = << "btn.disabled", "status.creating" >>
    /\ outcome' = [kind |-> "running", why |-> ""]
    /\ disk0' = disk
    /\ pc' = "call"
    /\ UNCHANGED <<input_dir, output_pdf, dpi_fallback, convVars, fsVars>>
    /\ UNCHANGED <<enumVars, sizeVars>>

\* line 313, int(self.dpi_fallback.get()), and lines 46..50 of the core
call_convert ==
    /\ pc = "call"
    /\ IF IntVar_get(dpi_fallback).err # "none"
       THEN /\ exc' = IntVar_get(dpi_fallback).err
            /\ pc' = "except"
            /\ UNCHANGED <<images, idx, c, calls>>
       ELSE /\ calls' = Append(calls, "convert")
            /\ \E ls \in listdir(strip(input_dir)) :
                  LET r == iter_images(strip(input_dir), ls)
                  IN  IF r.err # "none"
                      THEN exc' = r.err /\ pc' = "except" /\ UNCHANGED <<images, idx, c>>
                      ELSE IF r.files = <<>>
                      THEN /\ exc' = "FileNotFoundError"
                           /\ pc' = "except"
                           /\ UNCHANGED <<images, idx, c>>
                      ELSE /\ images' = r.files
                           /\ idx' = 1
                           /\ c' = None
                           /\ pc' = "loop"
                           /\ UNCHANGED exc
    /\ UNCHANGED <<input_dir, output_pdf, dpi_fallback, btn_state, status, fsVars,
                   outcome, disk0>>
    /\ UNCHANGED <<enumVars, sizeVars>>

\* lines 52..80: one turn of the for loop
loop_body ==
    /\ pc = "loop"
    /\ LET path   == images[idx]
           opened == Image_open(EntryAt(path))
           im     == normalize(exif_transpose(opened.im))
           pts    == image_size_in_points(im, IntVar_get(dpi_fallback).val)
           page   == <<pts.w_pt, pts.h_pt>>
           c1     == IF ~c.made THEN Canvas(strip(output_pdf), page)
                     ELSE setPageSize(c, page)
       IN  IF opened.err # "none"
           THEN exc' = opened.err /\ pc' = "except" /\ UNCHANGED <<c, idx>>
           ELSE IF pts.err # "none"
           THEN exc' = pts.err /\ pc' = "except" /\ UNCHANGED <<c, idx>>
           ELSE /\ c' = drawImage_showPage(c1, path, pts.w_pt, pts.h_pt)
                /\ idx' = idx + 1
                /\ pc' = IF idx = Len(images) THEN "save" ELSE "loop"
                /\ UNCHANGED exc
    /\ UNCHANGED <<input_dir, output_pdf, dpi_fallback, btn_state, status, images,
                   fsVars, runVars>>
    /\ UNCHANGED <<enumVars, sizeVars>>

\* line 82, c.save(): the document is written, or the write fails, before or
\* after the file was opened for writing
save ==
    /\ pc = "save"
    /\ \E result \in {"written", "not opened", "truncated"} :
          IF result = "written"
          THEN /\ disk' = [disk EXCEPT ![c.filename] =
                              [exists |-> TRUE, complete |-> TRUE, pages |-> c.pages]]
               /\ c' = [c EXCEPT !.saves = @ + 1]
               /\ pc' = "done"
               /\ UNCHANGED exc
          ELSE /\ disk' = IF result = "truncated"
                          THEN [disk EXCEPT ![c.filename] =
                                   [exists |-> TRUE, complete |-> FALSE, pages |-> <<>>]]
                          ELSE disk
               /\ exc' = "OSError"
               /\ pc' = "except"
               /\ UNCHANGED c
    /\ UNCHANGED <<input_dir, output_pdf, dpi_fallback, btn_state, status, images, idx,
                   folder, runVars>>
    /\ UNCHANGED <<enumVars, sizeVars>>

\* lines 315..316: the core returned
run_done ==
    /\ pc = "done"
    /\ status' = Status("created", strip(output_pdf), "")
    /\ calls' = calls \o << "status.created", "showinfo" >>
    /\ outcome' = [kind |-> "ok", why |-> ""]
    /\ pc' = "finally"
    /\ UNCHANGED <<input_dir, output_pdf, dpi_fallback, btn_state, convVars, fsVars, disk0>>
    /\ UNCHANGED <<enumVars, sizeVars>>

\* a faulty variant: the exception is caught and nothing is shown
run_except_silent ==
    /\ pc = "except"
    /\ outcome' = [kind |-> "raised", why |-> exc]
    /\ pc' = "finally"
    /\ UNCHANGED <<input_dir, output_pdf, dpi_fallback, btn_state, status, convVars,
                   fsVars, calls, disk0>>
    /\ UNCHANGED <<enumVars, sizeVars>>

\* lines 318..320: except Exception
run_except ==
    /\ pc = "except"
    /\ status' = Status("error", <<>>, exc)
    /\ calls' = calls \o << "status.error", "showerror" >>
    /\ outcome' = [kind |-> "raised", why |-> exc]
    /\ pc' = "finally"
    /\ UNCHANGED <<input_dir, output_pdf, dpi_fallback, btn_state, convVars, fsVars, disk0>>
    /\ UNCHANGED <<enumVars, sizeVars>>

\* a faulty variant: the trigger is left as it is
run_finally_forgotten ==
    /\ pc = "finally"
    /\ pc' = "idle"
    /\ images' = <<>> /\ idx' = 0 /\ c' = None /\ exc' = "none"
    /\ UNCHANGED <<input_dir, output_pdf, dpi_fallback, btn_state, status, fsVars, runVars>>
    /\ UNCHANGED <<enumVars, sizeVars>>

\* lines 321..322: finally, and run returns
run_finally ==
    /\ pc = "finally"
    /\ btn_state' = "normal"
    /\ calls' = Append(calls, "btn.normal")
    /\ pc' = "idle"
    /\ images' = <<>> /\ idx' = 0 /\ c' = None /\ exc' = "none"
    /\ UNCHANGED <<input_dir, output_pdf, dpi_fallback, status, fsVars, outcome, disk0>>
    /\ UNCHANGED <<enumVars, sizeVars>>

Next ==
    \/ TypeInput
    \/ TypeOutput
    \/ TypeDpi
    \/ pick_folder
    \/ pick_output
    \/ run_reject
    \/ run_try
    \/ call_convert
    \/ loop_body
    \/ save
    \/ run_done
    \/ run_except
    \/ run_finally

Spec == Init /\ [][Next]_vars


(***************************************************************************)
(* Properties of convert_folder_to_pdf (Spec)                              *)
(***************************************************************************)
\* the qualifying images of a directory: its files (not its subdirectories)
\* with a supported extension
Qualifying(path) ==
    { e \in DirEntries(path) : ~e.isdir /\ lower(splitext_ext(e.name)) \in SUPPORTED_EXT }

Called == \E k \in 1..Len(calls) : calls[k] = "convert"

\* img as line 65 hands it to image_size_in_points, for the file at path
ImgAtSizing(path) == normalize(exif_transpose(Image_open(EntryAt(path)).im))

\* C1: when convert_folder_to_pdf completes without error on a directory with
\* n >= 1 qualifying images, the saved document has exactly n pages; page i was
\* drawn from file i of the result of iter_images and has the dimensions
\* image_size_in_points gives for that image, the first page by the Canvas
\* constructor and every later one by setPageSize; the document is saved once,
\* after the last page.
C1_OnePagePerImage ==
    /\ pc \in {"loop", "save"} => c.saves = 0 /\ disk = disk0
    /\ pc = "done" =>
          LET n == Cardinality(Qualifying(strip(input_dir)))
          IN  /\ n >= 1
              /\ Len(images) = n
              /\ Len(c.pages) = n
              /\ \A i \in 1..n :
                    LET pts == image_size_in_points(ImgAtSizing(images[i]),
                                                    IntVar_get(dpi_fallback).val)
                    IN  /\ c.pages[i].src = images[i]
                        /\ pts.err = "none"
                        /\ c.pages[i].size = <<pts.w_pt, pts.h_pt>>
                        /\ c.pages[i].drawn = <<pts.w_pt, pts.h_pt>>
                        /\ c.pages[i].via = IF i = 1 THEN "Canvas" ELSE "setPageSize"
              /\ c.saves = 1
              /\ disk[strip(output_pdf)] =
                    [exists |-> TRUE, complete |-> TRUE, pages |-> c.pages]

\* a document of two pages of different sizes was saved
C1_Witness ==
    /\ pc = "done"
    /\ Len(c.pages) = 2
    /\ c.pages[1].size # c.pages[2].size
    /\ disk[strip(output_pdf)].pages = c.pages

\* C5: the page of every image whose decoded metadata reports a positive DPI on
\* both axes has the geometry that metadata gives (pixels / DPI * 72), whatever
\* the fallback DPI and whatever the color mode of the image.
C5_MetadataDecidesGeometry ==
    \A i \in 1..Len(c.pages) :
        LET decoded == Image_open(EntryAt(c.pages[i].src)).im
            px      == exif_transpose(decoded).size
        IN  (Len(decoded.dpi) = 2 /\ decoded.dpi[1] > 0 /\ decoded.dpi[2] > 0) =>
                c.pages[i].size = << Points(px[1], decoded.dpi[1]),
                                     Points(px[2], decoded.dpi[2]) >>

\* C6: convert_folder_to_pdf on a directory with no qualifying image raises
\* FileNotFoundError ("no supported images found") before a canvas is created,
\* and the destination file is neither created nor modified.
C6_NoImagesRaises ==
    (pc = "except" /\ Called /\ Qualifying(strip(input_dir)) = {}) =>
        /\ exc = "FileNotFoundError"
        /\ ~c.made
        /\ disk = disk0

(***************************************************************************)
(* Properties of App.run (Spec)                                            *)
(***************************************************************************)
Has(call) == \E k \in 1..Len(calls) : calls[k] = call

Ended(kinds) == pc = "idle" /\ outcome.kind \in kinds

\* C8, as stated: every error outcome of run (a rejected input, a rejected
\* destination, no qualifying image, an invalid fallback DPI, a failure of the
\* core conversion) results in an error dialog and in an update of the status
\* line.
C8_DialogAndStatus ==
    Ended({"rejected", "raised"}) => Has("showerror") /\ Has("status.error")

\* what run does between the validation and the finally clause when an
\* exception is raised
RaisedCalls(why) ==
    << "btn.disabled", "status.creating" >>
    \o (IF why = "TclError" THEN <<>> ELSE << "convert" >>)
    \o << "status.error", "showerror", "btn.normal" >>

\* a step of run that rejects the fields
Rejects == pc = "idle" /\ outcome'.kind = "rejected"

\* C8, amended: every error outcome of run results in an error dialog; an
\* error raised in the try block (no qualifying image, an invalid fallback
\* DPI, a failure of the core conversion) also puts the error in the status
\* line, and a rejection by the validation shows the dialog only and leaves the
\* status line as it was.
C8_DialogAlways_StatusInTry ==
    /\ [](Ended({"raised"}) =>
             /\ calls = RaisedCalls(outcome.why)
             /\ status = Status("error", <<>>, outcome.why))
    /\ [](Ended({"rejected"}) => calls = << "showerror" >>)
    /\ [][Rejects => status' = status]_vars

\* a rejection after a successful run: the status line still tells of the PDF
C8_Witness == Ended({"rejected"}) /\ status.kind = "created"

\* C9: the trigger is disabled and the status line updated before the core is
\* called, the trigger stays disabled during the call, and it is enabled again
\* after the call returns or raises: whenever run is not executing, the
\* trigger is enabled.
C9_TriggerDisabledDuringCall ==
    /\ pc = "idle" => btn_state = "normal"
    /\ pc \in {"call", "loop", "save", "done", "except", "finally"} => btn_state = "disabled"
    /\ pc \in {"call", "loop", "save"} => status.kind = "creating"
    /\ Called => SubSeq(calls, 1, 3) = << "btn.disabled", "status.creating", "convert" >>
    /\ Ended({"ok", "raised"}) => calls[Len(calls)] = "btn.normal"

\* the core raised in the middle of the loop, and run has returned
C9_Witness ==
    /\ Ended({"raised"})
    /\ outcome.why = "ZeroDivisionError"
    /\ btn_state = "normal"

\* the fields as run reads them pass its three checks
FieldsValid ==
    LET in_dir  == strip(input_dir)
        out_pdf == strip(output_pdf)
    IN  /\ in_dir # <<>>
        /\ in_dir \in Dirs
        /\ out_pdf # <<>>
        /\ (IF dirname(out_pdf) = <<>> THEN Cwd ELSE dirname(out_pdf)) \in Dirs

\* C10: run calls the core only after validating the fields: never with an
\* empty or non-existent input directory, an empty destination, or a
\* destination whose parent directory does not exist; in those cases run
\* returns after showing an error and leaves the trigger as it was.
C10_CoreOnlyAfterValidation ==
    /\ pc # "idle" => FieldsValid
    /\ Called => outcome.kind # "rejected"
    /\ Ended({"ok", "raised"}) => FieldsValid
    /\ Ended({"rejected"}) =>
          /\ ~FieldsValid
          /\ calls = << "showerror" >>
          /\ btn_state = "normal"
          /\ c = None /\ disk = disk0

\* the destination folder does not exist, and run has returned
C10_Witness ==
    /\ Ended({"rejected"})
    /\ outcome.why = "Ruta invalida"
    /\ strip(input_dir) \in Dirs

=============================================================================
